---------------------------- MODULE Spec2Model ----------------------------
(***************************************************************************)
(* CRMUpdater (src/script.py): reconciliation of CRM contacts with         *)
(* event-feedback form submissions.                                        *)
(*                                                                         *)
(* A Python string is a sequence of tokens, so that concatenation is \o,   *)
(* the empty string is << >> (falsy), and strip() really removes the       *)
(* leading and trailing whitespace tokens " " and "\n".                    *)
(***************************************************************************)
EXTENDS Integers, Sequences, FiniteSets, TLC

\* ------------------------------------------------------------------------
\* Bounds of the model
\* ------------------------------------------------------------------------
MaxContacts == 1
MaxSubs == 2

\* ------------------------------------------------------------------------
\* Strings
\* ------------------------------------------------------------------------
E == << >>

S(tok) == << tok >>

Whitespace == {" ", "\n"}

RECURSIVE lstrip(_)
lstrip(s) ==
    IF s # E /\ Head(s) \in Whitespace THEN lstrip(Tail(s)) ELSE s

RECURSIVE rstrip(_)
rstrip(s) ==
    IF s # E /\ s[Len(s)] \in Whitespace
    THEN rstrip(SubSeq(s, 1, Len(s) - 1))
    ELSE s

\* str.strip()
strip(s) == rstrip(lstrip(s))

\* str.lower(), token by token; tokens without upper-case letters are kept.
LowerToken(tok) ==
    CASE tok = "A@X.com" -> "a@x.com"
      [] tok = "New@x.com" -> "new@x.com"
      [] OTHER -> tok

lower(s) == [n \in 1..Len(s) |-> LowerToken(s[n])]

\* dict.get(key, default): the default is used only when the key is absent.
get(d, key, default) == IF key \in DOMAIN d THEN d[key] ELSE default

\* datetime.now().strftime('%Y-%m-%d')
Today == S("2026-11-06")

\* str.replace('s', '+00:00'): the token "s" stands for the letter; no other
\* token of the model contains it.
replace_s(s) ==
    [n \in 1..Len(s) |-> IF s[n] = "s" THEN "+00:00" ELSE s[n]]

\* str.split('T')[0]: the part before the first "T".
RECURSIVE split_T_0(_)
split_T_0(s) ==
    IF s = E \/ Head(s) = "T" THEN E ELSE << Head(s) >> \o split_T_0(Tail(s))

\* The calendar dates of the model and their proleptic ordinals
\* (date.toordinal()); every other string raises ValueError.
IsoDates ==
    ("2024-01-01" :> 738886) @@ ("2024-02-01" :> 738917) @@
    ("2024-03-01" :> 738946) @@ ("2026-11-06" :> 739926)

\* datetime.fromisoformat(s): [ok |-> FALSE] stands for ValueError.
fromisoformat(s) ==
    IF Len(s) = 1 /\ s[1] \in DOMAIN IsoDates
    THEN [ok |-> TRUE, ordinal |-> IsoDates[s[1]]]
    ELSE [ok |-> FALSE, ordinal |-> 0]

\* datetime.fromisoformat(x.replace('s', '+00:00').split('T')[0])
parse_date(s) == fromisoformat(split_T_0(replace_s(s)))

\* ------------------------------------------------------------------------
\* Normalisation
\* ------------------------------------------------------------------------
normalise_contact_data(contact) ==
    [id                |-> strip(get(contact, "id", E)),
     first             |-> strip(get(contact, "first", E)),
     last              |-> strip(get(contact, "last", E)),
     email             |-> strip(get(contact, "email", E)),
     phone             |-> strip(get(contact, "phone", E)),
     last_contact_date |-> strip(get(contact, "last contact date", E)),
     last_contact_text |-> strip(get(contact, "last contact text", E)),
     all_contact_text  |-> strip(get(contact, "all contact text", E))]

field_mappings ==
    [id              |-> <<"id", "contact_id", "user_id", "submission_id">>,
     first           |-> <<"first", "first_name", "firstName", "fname">>,
     last            |-> <<"last", "last_name", "lastName", "lname">>,
     email           |-> <<"email", "email_address", "user_email">>,
     phone           |-> <<"phone", "phone_number", "mobile", "telephone">>,
     feedback        |-> <<"feedback", "comments", "message", "review", "notes">>,
     submission_date |-> <<"submission_date", "created_at", "timestamp", "date",
                           "submitted_at">>,
     event           |-> <<"event", "event_name", "event_title">>,
     rating          |-> <<"rating", "score", "satisfaction">>]

\* The inner loop over possible_keys: the first alias that is present with a
\* truthy value wins (and is stripped); '' when there is none.
RECURSIVE first_alias(_, _)
first_alias(submission, possible_keys) ==
    IF possible_keys = << >> THEN E
    ELSE IF Head(possible_keys) \in DOMAIN submission
            /\ submission[Head(possible_keys)] # E
         THEN strip(submission[Head(possible_keys)])
         ELSE first_alias(submission, Tail(possible_keys))

\* Every canonical key is present in the result, with '' when nothing matched.
normalise_submission_data(submission) ==
    [key \in DOMAIN field_mappings |->
        first_alias(submission, field_mappings[key])]

\* ------------------------------------------------------------------------
\* Staleness check
\* ------------------------------------------------------------------------
\* A variant of the date comparison that takes an unparsable date for "not
\* newer".
newer_or_fail_closed(submission_date_str, last_contact_date_str) ==
    IF submission_date_str # E /\ last_contact_date_str # E
    THEN LET submission_date == parse_date(submission_date_str)
             last_contact_date == parse_date(last_contact_date_str)
         IN  /\ submission_date.ok
             /\ last_contact_date.ok
             /\ submission_date.ordinal > last_contact_date.ordinal
    ELSE FALSE

\* Lines 180-197: the dates are parsed only when both strings are non-empty;
\* a ValueError from either parse is caught and answers True.
newer_or_unparsable(submission_date_str, last_contact_date_str) ==
    IF submission_date_str # E /\ last_contact_date_str # E
    THEN LET submission_date == parse_date(submission_date_str)
             last_contact_date == parse_date(last_contact_date_str)
         IN  IF ~submission_date.ok \/ ~last_contact_date.ok
             THEN TRUE
             ELSE submission_date.ordinal > last_contact_date.ordinal
    ELSE FALSE

is_data_missing_or_outdated(contact, submission) ==
    IF get(contact, "phone", E) = E /\ get(submission, "phone", E) # E
    THEN TRUE
    ELSE IF get(contact, "first", E) = E /\ get(submission, "first", E) # E
    THEN TRUE
    ELSE IF get(contact, "last", E) = E /\ get(submission, "last", E) # E
    THEN TRUE
    ELSE IF get(submission, "feedback", E) # E
    THEN IF get(contact, "last_contact_date", E) = E
         THEN TRUE
         ELSE newer_or_unparsable(get(submission, "submission_date", E),
                                  get(contact, "last_contact_date", E))
    ELSE FALSE

\* ------------------------------------------------------------------------
\* Merge
\* ------------------------------------------------------------------------
\* f"Event feedback{event_info}: {submission['feedback']}{rating_info}"
feedback_text(submission) ==
    LET event_info ==
            IF get(submission, "event", E) # E
            THEN <<" ", "about", " ">> \o submission.event ELSE E
        rating_info ==
            IF get(submission, "rating", E) # E
            THEN <<" ", "(Rating:", " ">> \o submission.rating \o <<")">>
            ELSE E
    IN  <<"Event feedback">> \o event_info \o <<":", " ">>
            \o submission.feedback \o rating_info

\* submission.get('submission_date', datetime.now().strftime('%Y-%m-%d'))
contact_date(submission) == get(submission, "submission_date", Today)

\* The separator of history entries, "\n \n "
EntrySeparator == <<"\n", " ", "\n", " ">>

\* A variant of the entry that starts on the line after the date.
new_entry_own_line(date, text) == date \o EntrySeparator \o text

\* f"{date} - {feedback_text}"
new_entry(date, text) == date \o <<" ", "-", " ">> \o text

\* A variant of the append that overwrites the history with the new entry.
append_history_overwrite(all_contact_text, entry) == entry

\* Lines 233-240: append to the history.
append_history(all_contact_text, entry) ==
    LET existing_text == strip(all_contact_text)
    IN  IF existing_text # E
        THEN existing_text \o EntrySeparator \o entry
        ELSE entry

\* A variant of the fill that takes the submission's value whenever it has one.
fill_overwrite(contact, submission, key) ==
    IF get(submission, key, E) # E THEN submission[key] ELSE contact[key]

\* Lines 205-219: fill one missing field.
fill(contact, submission, key) ==
    IF get(contact, key, E) = E /\ get(submission, key, E) # E
    THEN submission[key] ELSE contact[key]

update_contact_with_feedback(contact, submission) ==
    LET filled == [contact EXCEPT
                     !.phone = fill(contact, submission, "phone"),
                     !.first = fill(contact, submission, "first"),
                     !.last  = fill(contact, submission, "last")]
    IN  IF get(submission, "feedback", E) # E
        THEN LET text == feedback_text(submission)
                 date == contact_date(submission)
             IN  [filled EXCEPT
                    !.last_contact_text = text,
                    !.last_contact_date = date,
                    !.all_contact_text =
                        append_history(filled.all_contact_text,
                                       new_entry(date, text))]
        ELSE filled

\* ------------------------------------------------------------------------
\* Matching
\* ------------------------------------------------------------------------
\* Lines 266-280: the two indices; a bucket keeps the submissions in input
\* order, and a submission with an empty key is left out of that index.
index_by_email(submissions) ==
    [key \in {lower(s.email) : s \in {submissions[n] : n \in 1..Len(submissions)}}
                \ {E} |->
        SelectSeq(submissions, LAMBDA s : s.email # E /\ lower(s.email) = key)]

index_by_id(submissions) ==
    [key \in {s.id : s \in {submissions[n] : n \in 1..Len(submissions)}}
                \ {E} |->
        SelectSeq(submissions, LAMBDA s : s.id # E /\ s.id = key)]

\* A variant of the lookup that takes every bucket of the two indices,
\* whatever the id and the e-mail of the contact.
RECURSIVE all_buckets(_, _)
all_buckets(index, keys) ==
    IF keys = {} THEN << >>
    ELSE LET key == CHOOSE x \in keys : TRUE
         IN  index[key] \o all_buckets(index, keys \ {key})

find_matching_any(contact, by_id, by_email) ==
    all_buckets(by_id, DOMAIN by_id) \o all_buckets(by_email, DOMAIN by_email)

\* Lines 287-295: id matches first, then email matches.
find_matching(contact, by_id, by_email) ==
    (IF contact.id # E /\ contact.id \in DOMAIN by_id
     THEN by_id[contact.id] ELSE << >>)
    \o
    (IF contact.email # E /\ lower(contact.email) \in DOMAIN by_email
     THEN by_email[lower(contact.email)] ELSE << >>)

sub_key(sub) ==
    << get(sub, "email", E), get(sub, "feedback", E),
       get(sub, "submission_date", E) >>

\* A variant of the deduplication that keeps every match.
dedupe_none(matching, seen) == matching

\* Lines 297-304: keep the first submission of each composite key.
RECURSIVE dedupe(_, _)
dedupe(matching, seen) ==
    IF matching = << >> THEN << >>
    ELSE IF sub_key(Head(matching)) \in seen
         THEN dedupe(Tail(matching), seen)
         ELSE << Head(matching) >>
                \o dedupe(Tail(matching), seen \cup {sub_key(Head(matching))})

\* ------------------------------------------------------------------------
\* New contacts
\* ------------------------------------------------------------------------
existing_emails(contacts) ==
    {lower(contacts[n].email) : n \in {m \in 1..Len(contacts) : contacts[m].email # E}}

existing_ids(contacts) ==
    {contacts[n].id : n \in {m \in 1..Len(contacts) : contacts[m].id # E}}

\* A variant of the guard that does not look at the e-mails of the contacts.
is_new_contact_by_id(submission, contacts) ==
    /\ lower(get(submission, "email", E)) # E
    /\ get(submission, "id", E) # E
    /\ get(submission, "id", E) \notin existing_ids(contacts)
    /\ get(submission, "feedback", E) # E

\* Lines 333-335
is_new_contact(submission, contacts) ==
    /\ lower(get(submission, "email", E)) # E
    /\ lower(get(submission, "email", E)) \notin existing_emails(contacts)
    /\ get(submission, "id", E) # E
    /\ get(submission, "id", E) \notin existing_ids(contacts)
    /\ get(submission, "feedback", E) # E

\* A variant of the new contact that takes the generated id.
new_contact_generated_id(submission) ==
    LET text == feedback_text(submission)
    IN  [id                |-> S("new-N"),
         first             |-> get(submission, "first", E),
         last              |-> get(submission, "last", E),
         email             |-> get(submission, "email", E),
         phone             |-> get(submission, "phone", E),
         last_contact_date |-> contact_date(submission),
         last_contact_text |-> text,
         all_contact_text  |-> new_entry(contact_date(submission), text)]

\* Lines 338-351
new_contact(submission) ==
    LET text == feedback_text(submission)
    IN  [id                |-> IF get(submission, "id", E) # E
                               THEN submission.id ELSE S("new-N"),
         first             |-> get(submission, "first", E),
         last              |-> get(submission, "last", E),
         email             |-> get(submission, "email", E),
         phone             |-> get(submission, "phone", E),
         last_contact_date |-> contact_date(submission),
         last_contact_text |-> text,
         all_contact_text  |-> new_entry(contact_date(submission), text)]

\* ------------------------------------------------------------------------
\* Output: lines 377-389, a row of the CSV file, read back by csv.DictReader
\* ------------------------------------------------------------------------
csv_row(contact) ==
    ("id" :> get(contact, "id", E)) @@
    ("first" :> get(contact, "first", E)) @@
    ("last" :> get(contact, "last", E)) @@
    ("email" :> get(contact, "email", E)) @@
    ("phone" :> get(contact, "phone", E)) @@
    ("last contact date" :> get(contact, "last_contact_date", E)) @@
    ("last contact text" :> get(contact, "last_contact_text", E)) @@
    ("all contact text" :> get(contact, "all_contact_text", E))

create_csv(contacts) == [n \in 1..Len(contacts) |-> csv_row(contacts[n])]

\* ------------------------------------------------------------------------
\* Inputs
\* ------------------------------------------------------------------------
RawContact(id, email, phone, first, last, date, text, history) ==
    ("id" :> id) @@ ("first" :> first) @@ ("last" :> last) @@
    ("email" :> email) @@ ("phone" :> phone) @@
    ("last contact date" :> date) @@ ("last contact text" :> text) @@
    ("all contact text" :> history)

RawSubmission(id, email, phone, first, last, feedback, date, event, rating) ==
    [id |-> id, email |-> email, phone |-> phone, first |-> first,
     last |-> last, feedback |-> feedback, submission_date |-> date,
     event |-> event, rating |-> rating]

SeqsUpTo(set, n) == UNION {[1..m -> set] : m \in 0..n}

\* <<id, email>> of a CRM row; the e-mail is padded and in upper case, so that
\* strip() and lower() decide the match.
ContactIdentities ==
    { <<S("1"), <<" ", "A@X.com", " ">> >>, <<S("2"), E>> }

\* <<phone, last contact date, last contact text, all contact text>>
ContactStates ==
    { <<E, E, E, E>>,
      <<S("555"), S("2024-02-01"), S("Called"),
        <<"2024-02-01", " ", "-", " ", "Called">> >> }

CrmRows ==
    { RawContact(who[1], who[2], st[1], IF st[1] = E THEN E ELSE S("Ann"),
                 S("Lee"), st[2], st[3], st[4]) :
        who \in ContactIdentities, st \in ContactStates }

\* <<id, email>> of a submission
SubmissionIdentities ==
    { <<S("1"), S("a@x.com")>>, <<E, S("a@x.com")>>,
      <<S("99"), S("New@x.com")>>, <<S("99"), S("a@x.com")>> }

\* <<phone, first, feedback, submission_date, event, rating>>
SubmissionPayloads ==
    { <<S("555"), S("Ann"), E, E, E, E>>,
      <<E, E, S("Great event"), S("2024-03-01"), S("Meetup"), S("5")>>,
      <<S("777"), E, S("Good"), S("2024-01-01"), E, E>>,
      <<E, E, S("Great event"), E, S("Meetup"), E>> }

FormRows ==
    { RawSubmission(who[1], who[2], pl[1], pl[2], E, pl[3], pl[4], pl[5], pl[6]) :
        who \in SubmissionIdentities, pl \in SubmissionPayloads }

\* The pairs of the checks of one contact against one submission: every
\* combination of missing and present fields, and dates that are empty,
\* valid, valid with a time part, and not dates at all.
PairDates ==
    { E, S("2024-01-01"), S("2024-02-01"),
      <<"2024-03-01", "T", "09:30:00", "Z">>, S("next week") }

PairContacts ==
    { normalise_contact_data(
          RawContact(S("1"), S("a@x.com"), phone, first, last, date,
                     IF date = E THEN E ELSE S("Called"), history)) :
        phone \in {E, S("555")}, first \in {E, S("Ann")},
        last \in {E, S("Lee")}, date \in PairDates,
        history \in {E, <<"2023-12-01", " ", "-", " ", "Called">>} }

\* The date of half of the rows comes under the alias created_at, padded.
PairRows ==
    { RawSubmission(S("1"), S("a@x.com"), phone, first, last, feedback, date,
                    event, rating) :
        phone \in {E, S("777")}, first \in {E, S("Bob")},
        last \in {E, S("Ray")}, feedback \in {E, S("Great event")},
        date \in PairDates, event \in {E, S("Meetup")},
        rating \in {E, S("5")} }
    \cup
    { [id |-> S("1"), email |-> S("a@x.com"), phone |-> phone,
       comments |-> S("Great event"), submission_date |-> E,
       created_at |-> <<" ">> \o date] :
        phone \in {E, S("777")}, date \in PairDates }

\* ------------------------------------------------------------------------
\* State
\* ------------------------------------------------------------------------
VARIABLES
    crm_contacts,            \* get_crm_data()
    form_submissions,        \* get_form_submissions()
    pc,                      \* position in process_and_update_contacts
    normalised_contacts,
    normalised_submissions,
    submissions_by_email,
    submissions_by_id,
    updated_contacts,
    i,                       \* index of the contact of the outer loop
    matching_submissions,
    unique_submissions,
    k,                       \* index of the submission of the inner loop
    current_contact,
    contact_updated,
    update_count,
    j,                       \* index of the submission of the new-contact loop
    new_contact_count,
    result,                  \* the returned list
    run,                     \* 1 for the first run, 2 for the run on its output
    first_result,            \* the list returned by the first run
    last_merge,              \* the last merge or synthesis: before, after, submission
    applied,                 \* the submissions merged into current_contact
    synthesized_from         \* the submission index of every appended new contact

vars == << crm_contacts, form_submissions, pc, normalised_contacts,
           normalised_submissions, submissions_by_email, submissions_by_id,
           updated_contacts, i, matching_submissions, unique_submissions, k,
           current_contact, contact_updated, update_count, j,
           new_contact_count, result, run, first_result, last_merge, applied,
           synthesized_from >>

NoContact == normalise_contact_data(<< >>)
NoSubmission == normalise_submission_data(<< >>)
NoMerge == [kind |-> "none", before |-> NoContact, after |-> NoContact,
            submission |-> NoSubmission]

Locals ==
    /\ normalised_contacts = << >>
    /\ normalised_submissions = << >>
    /\ submissions_by_email = << >>
    /\ submissions_by_id = << >>
    /\ updated_contacts = << >>
    /\ i = 0
    /\ matching_submissions = << >>
    /\ unique_submissions = << >>
    /\ k = 0
    /\ current_contact = NoContact
    /\ contact_updated = FALSE
    /\ update_count = 0
    /\ j = 0
    /\ new_contact_count = 0
    /\ result = << >>
    /\ last_merge = NoMerge
    /\ applied = << >>
    /\ synthesized_from = << >>

Init ==
    /\ crm_contacts \in SeqsUpTo(CrmRows, MaxContacts)
    /\ form_submissions \in SeqsUpTo(FormRows, MaxSubs)
    /\ pc = "start"
    /\ run = 1
    /\ first_result = << >>
    /\ Locals

\* ------------------------------------------------------------------------
\* process_and_update_contacts
\* ------------------------------------------------------------------------
\* Lines 255-257
NoContactsFound ==
    /\ pc = "start"
    /\ crm_contacts = << >>
    /\ result' = << >>
    /\ pc' = "done"
    /\ UNCHANGED << crm_contacts, form_submissions, normalised_contacts,
                    normalised_submissions, submissions_by_email,
                    submissions_by_id, updated_contacts, i,
                    matching_submissions, unique_submissions, k,
                    current_contact, contact_updated, update_count, j,
                    new_contact_count, run, first_result, last_merge, applied,
                    synthesized_from >>

\* Lines 259-283
NormaliseAndIndex ==
    /\ pc = "start"
    /\ crm_contacts # << >>
    /\ normalised_contacts' =
          [n \in 1..Len(crm_contacts) |-> normalise_contact_data(crm_contacts[n])]
    /\ normalised_submissions' =
          [n \in 1..Len(form_submissions) |->
              normalise_submission_data(form_submissions[n])]
    /\ submissions_by_email' = index_by_email(normalised_submissions')
    /\ submissions_by_id' = index_by_id(normalised_submissions')
    /\ updated_contacts' = << >>
    /\ update_count' = 0
    /\ i' = 1
    /\ pc' = "contact"
    /\ UNCHANGED << crm_contacts, form_submissions, matching_submissions,
                    unique_submissions, k, current_contact, contact_updated,
                    j, new_contact_count, result, run, first_result,
                    last_merge, applied, synthesized_from >>

\* Lines 285-308: the matches of the next contact, without duplicates.
MatchContact ==
    /\ pc = "contact"
    /\ i <= Len(normalised_contacts)
    /\ matching_submissions' =
          find_matching(normalised_contacts[i], submissions_by_id,
                        submissions_by_email)
    /\ unique_submissions' = dedupe(matching_submissions', {})
    /\ current_contact' = normalised_contacts[i]
    /\ contact_updated' = FALSE
    /\ k' = 1
    /\ applied' = << >>
    /\ last_merge' = NoMerge
    /\ pc' = "fold"
    /\ UNCHANGED << crm_contacts, form_submissions, normalised_contacts,
                    normalised_submissions, submissions_by_email,
                    submissions_by_id, updated_contacts, i, update_count, j,
                    new_contact_count, result, run, first_result,
                    synthesized_from >>

\* Lines 310-314, when the check answers True
MergeSubmission ==
    /\ pc = "fold"
    /\ k <= Len(unique_submissions)
    /\ is_data_missing_or_outdated(current_contact, unique_submissions[k])
    /\ current_contact' =
          update_contact_with_feedback(current_contact, unique_submissions[k])
    /\ contact_updated' = TRUE
    /\ k' = k + 1
    /\ last_merge' = [kind |-> "merge", before |-> current_contact,
                      after |-> current_contact',
                      submission |-> unique_submissions[k]]
    /\ applied' = Append(applied, unique_submissions[k])
    /\ UNCHANGED << crm_contacts, form_submissions, pc, normalised_contacts,
                    normalised_submissions, submissions_by_email,
                    submissions_by_id, updated_contacts, i,
                    matching_submissions, unique_submissions, update_count,
                    j, new_contact_count, result, run, first_result,
                    synthesized_from >>

\* Lines 310-311, when the check answers False
SkipSubmission ==
    /\ pc = "fold"
    /\ k <= Len(unique_submissions)
    /\ ~is_data_missing_or_outdated(current_contact, unique_submissions[k])
    /\ k' = k + 1
    /\ last_merge' = NoMerge
    /\ UNCHANGED << crm_contacts, form_submissions, pc, normalised_contacts,
                    normalised_submissions, submissions_by_email,
                    submissions_by_id, updated_contacts, i,
                    matching_submissions, unique_submissions, current_contact,
                    contact_updated, update_count, j, new_contact_count,
                    result, run, first_result, applied, synthesized_from >>

\* Lines 316-327
AppendContact ==
    /\ pc = "fold"
    /\ k > Len(unique_submissions)
    /\ update_count' = IF contact_updated THEN update_count + 1 ELSE update_count
    /\ updated_contacts' = Append(updated_contacts, current_contact)
    /\ i' = i + 1
    /\ IF i + 1 <= Len(normalised_contacts)
       THEN pc' = "contact" /\ UNCHANGED << j, new_contact_count >>
       ELSE pc' = "new" /\ j' = 1 /\ new_contact_count' = 0
    /\ last_merge' = NoMerge
    /\ UNCHANGED << crm_contacts, form_submissions, normalised_contacts,
                    normalised_submissions, submissions_by_email,
                    submissions_by_id, matching_submissions,
                    unique_submissions, k, current_contact, contact_updated,
                    result, run, first_result, applied, synthesized_from >>

\* Lines 328-354, for a submission that passes the guard
AddNewContact ==
    /\ pc = "new"
    /\ j <= Len(normalised_submissions)
    /\ is_new_contact(normalised_submissions[j], normalised_contacts)
    /\ updated_contacts' =
          Append(updated_contacts, new_contact(normalised_submissions[j]))
    /\ new_contact_count' = new_contact_count + 1
    /\ j' = j + 1
    /\ last_merge' = [kind |-> "new", before |-> NoContact,
                      after |-> new_contact(normalised_submissions[j]),
                      submission |-> normalised_submissions[j]]
    /\ synthesized_from' = Append(synthesized_from, j)
    /\ UNCHANGED << crm_contacts, form_submissions, pc, normalised_contacts,
                    normalised_submissions, submissions_by_email,
                    submissions_by_id, i, matching_submissions,
                    unique_submissions, k, current_contact, contact_updated,
                    update_count, result, run, first_result, applied >>

\* Lines 328-335, for a submission that fails the guard
SkipNewContact ==
    /\ pc = "new"
    /\ j <= Len(normalised_submissions)
    /\ ~is_new_contact(normalised_submissions[j], normalised_contacts)
    /\ j' = j + 1
    /\ last_merge' = NoMerge
    /\ UNCHANGED << crm_contacts, form_submissions, pc, normalised_contacts,
                    normalised_submissions, submissions_by_email,
                    submissions_by_id, updated_contacts, i,
                    matching_submissions, unique_submissions, k,
                    current_contact, contact_updated, update_count,
                    new_contact_count, result, run, first_result, applied,
                    synthesized_from >>

\* Lines 356-359
ReturnContacts ==
    /\ pc = "new"
    /\ j > Len(normalised_submissions)
    /\ result' = updated_contacts
    /\ pc' = "done"
    /\ last_merge' = NoMerge
    /\ UNCHANGED << crm_contacts, form_submissions, normalised_contacts,
                    normalised_submissions, submissions_by_email,
                    submissions_by_id, updated_contacts, i,
                    matching_submissions, unique_submissions, k,
                    current_contact, contact_updated, update_count, j,
                    new_contact_count, run, first_result, applied,
                    synthesized_from >>

Next ==
    \/ NoContactsFound
    \/ NormaliseAndIndex
    \/ MatchContact
    \/ MergeSubmission
    \/ SkipSubmission
    \/ AppendContact
    \/ AddNewContact
    \/ SkipNewContact
    \/ ReturnContacts

Spec == Init /\ [][Next]_vars

\* ------------------------------------------------------------------------
\* The run on the output of the first run: run() writes the returned list
\* with create_csv, and the next run reads the rows as its CRM data.
\* ------------------------------------------------------------------------
RunAgain ==
    /\ pc = "done"
    /\ run = 1
    /\ result # << >>
    /\ crm_contacts' = create_csv(result)
    /\ first_result' = result
    /\ run' = 2
    /\ pc' = "start"
    /\ normalised_contacts' = << >>
    /\ normalised_submissions' = << >>
    /\ submissions_by_email' = << >>
    /\ submissions_by_id' = << >>
    /\ updated_contacts' = << >>
    /\ i' = 0
    /\ matching_submissions' = << >>
    /\ unique_submissions' = << >>
    /\ k' = 0
    /\ current_contact' = NoContact
    /\ contact_updated' = FALSE
    /\ update_count' = 0
    /\ j' = 0
    /\ new_contact_count' = 0
    /\ result' = << >>
    /\ last_merge' = NoMerge
    /\ applied' = << >>
    /\ synthesized_from' = << >>
    /\ UNCHANGED form_submissions

NextAgain == Next \/ RunAgain

SpecAgain == Init /\ [][NextAgain]_vars

\* ------------------------------------------------------------------------
\* The check and the merge of one contact and one submission
\* ------------------------------------------------------------------------
InitPair ==
    /\ crm_contacts = << >>
    /\ form_submissions \in {<< row >> : row \in PairRows}
    /\ pc = "pair"
    /\ run = 1
    /\ first_result = << >>
    /\ normalised_contacts = << >>
    /\ normalised_submissions = << >>
    /\ submissions_by_email = << >>
    /\ submissions_by_id = << >>
    /\ updated_contacts = << >>
    /\ i = 0
    /\ matching_submissions = << >>
    /\ unique_submissions = << normalise_submission_data(form_submissions[1]) >>
    /\ k = 1
    /\ current_contact \in PairContacts
    /\ contact_updated = FALSE
    /\ update_count = 0
    /\ j = 0
    /\ new_contact_count = 0
    /\ result = << >>
    /\ last_merge = NoMerge
    /\ applied = << >>
    /\ synthesized_from = << >>

\* is_data_missing_or_outdated(current_contact, submission); the answer is
\* kept in contact_updated.
CheckPair ==
    /\ pc = "pair"
    /\ contact_updated' =
          is_data_missing_or_outdated(current_contact, unique_submissions[k])
    /\ pc' = "checked"
    /\ UNCHANGED << crm_contacts, form_submissions, normalised_contacts,
                    normalised_submissions, submissions_by_email,
                    submissions_by_id, updated_contacts, i,
                    matching_submissions, unique_submissions, k,
                    current_contact, update_count, j, new_contact_count,
                    result, run, first_result, last_merge, applied,
                    synthesized_from >>

\* update_contact_with_feedback(current_contact, submission)
ApplyPair ==
    /\ pc = "checked"
    /\ current_contact' =
          update_contact_with_feedback(current_contact, unique_submissions[k])
    /\ last_merge' = [kind |-> "merge", before |-> current_contact,
                      after |-> current_contact',
                      submission |-> unique_submissions[k]]
    /\ applied' = Append(applied, unique_submissions[k])
    /\ pc' = "applied"
    /\ UNCHANGED << crm_contacts, form_submissions, normalised_contacts,
                    normalised_submissions, submissions_by_email,
                    submissions_by_id, updated_contacts, i,
                    matching_submissions, unique_submissions, k,
                    contact_updated, update_count, j, new_contact_count,
                    result, run, first_result, synthesized_from >>

NextPair == CheckPair \/ ApplyPair

SpecPair == InitPair /\ [][NextPair]_vars

\* ------------------------------------------------------------------------
\* Properties
\* ------------------------------------------------------------------------
IsPrefix(a, b) == Len(a) <= Len(b) /\ SubSeq(b, 1, Len(a)) = a

\* The history entries of an "all contact text": the parts between the
\* separators, each without its surrounding whitespace.
RECURSIVE SplitEntries(_, _)
SplitEntries(text, entry) ==
    IF text = E THEN << strip(entry) >>
    ELSE IF IsPrefix(EntrySeparator, text)
         THEN << strip(entry) >>
                \o SplitEntries(SubSeq(text, Len(EntrySeparator) + 1, Len(text)), E)
         ELSE SplitEntries(Tail(text), Append(entry, Head(text)))

Entries(text) == IF strip(text) = E THEN << >> ELSE SplitEntries(strip(text), E)

NumEntries(text) == Len(Entries(text))

Unparsable(date) == date # E /\ ~parse_date(date).ok

\* C1: a second run, on the output of the first run and the same
\* submissions, returns the output of the first run unchanged.
C1_Idempotent ==
    (run = 2 /\ pc = "done") => result = first_result

\* C2 (as claimed): every merge of the per-contact loop adds exactly one
\* entry to all_contact_text.
C2_OneEntryPerMerge ==
    last_merge.kind = "merge" =>
        NumEntries(last_merge.after.all_contact_text)
            = NumEntries(last_merge.before.all_contact_text) + 1

\* C2 (amended): a merge adds exactly one history entry when the submission
\* has feedback, and none when it has no feedback (a merge that only fills
\* phone, first or last).
C2_OneEntryPerFeedbackMerge ==
    last_merge.kind = "merge" =>
        NumEntries(last_merge.after.all_contact_text)
            = NumEntries(last_merge.before.all_contact_text)
                + (IF last_merge.submission.feedback # E THEN 1 ELSE 0)

C2_Witness ==
    /\ pc = "fold"
    /\ last_merge.kind = "merge"
    /\ last_merge.submission.feedback # E
    /\ NumEntries(last_merge.before.all_contact_text) = 1
    /\ NumEntries(last_merge.after.all_contact_text) = 2

\* C3: when the submissions merged into the working contact all carry
\* feedback and a valid date, the contact's last_contact_date and
\* last_contact_text are those of a latest-dated one among them.
C3_LatestApplied ==
    (/\ pc = "fold"
     /\ applied # << >>
     /\ \A n \in 1..Len(applied) :
            applied[n].feedback # E /\ parse_date(applied[n].submission_date).ok)
    => \E n \in 1..Len(applied) :
          /\ \A m \in 1..Len(applied) :
                parse_date(applied[m].submission_date).ordinal
                    <= parse_date(applied[n].submission_date).ordinal
          /\ current_contact.last_contact_date = applied[n].submission_date
          /\ current_contact.last_contact_text = feedback_text(applied[n])

\* C4: the history entries before a merge are a prefix of the history
\* entries after it.
C4_AppendOnly ==
    last_merge.kind = "merge" =>
        IsPrefix(Entries(last_merge.before.all_contact_text),
                 Entries(last_merge.after.all_contact_text))

C4_Witness ==
    /\ pc = "fold"
    /\ last_merge.kind = "merge"
    /\ Entries(last_merge.before.all_contact_text) # << >>
    /\ NumEntries(last_merge.after.all_contact_text)
         > NumEntries(last_merge.before.all_contact_text)

\* The n-th input contact has no matching submission: none with its
\* non-empty id, none with its non-empty lower-cased e-mail.
Unmatched(n) ==
    LET contact == normalise_contact_data(crm_contacts[n])
    IN  \A m \in 1..Len(form_submissions) :
            LET sub == normalise_submission_data(form_submissions[m])
            IN  /\ ~(contact.id # E /\ sub.id = contact.id)
                /\ ~(contact.email # E /\ lower(sub.email) = lower(contact.email))

C6_NewContactsGuarded ==
    /\ Len(updated_contacts) <= Len(normalised_contacts)
          \/ Len(updated_contacts)
                = Len(normalised_contacts) + Len(synthesized_from)
    /\ \A n \in 1..Len(synthesized_from) :
          LET sub == normalised_submissions[synthesized_from[n]]
              made == updated_contacts[Len(normalised_contacts) + n]
          IN  /\ sub.id # E /\ sub.email # E /\ sub.feedback # E
              /\ made.id = sub.id /\ made.email = sub.email
              /\ \A c \in 1..Len(normalised_contacts) :
                    /\ normalised_contacts[c].id # sub.id
                    /\ lower(normalised_contacts[c].email) # lower(sub.email)

C6_Witness ==
    /\ pc = "done"
    /\ synthesized_from # << >>
    /\ Len(result) = Len(crm_contacts) + Len(synthesized_from)
    /\ \E c \in 1..Len(normalised_contacts) :
          normalised_contacts[c].id # E /\ normalised_contacts[c].email # E
    /\ Len(synthesized_from) < Len(form_submissions)

\* The m-th submission has an id, an e-mail and feedback, and matches no
\* input contact by id or by e-mail.
Eligible(m) ==
    LET sub == normalise_submission_data(form_submissions[m])
    IN  /\ sub.id # E /\ sub.email # E /\ sub.feedback # E
        /\ \A n \in 1..Len(crm_contacts) :
              LET contact == normalise_contact_data(crm_contacts[n])
              IN  /\ contact.id # sub.id
                  /\ lower(contact.email) # lower(sub.email)

InOutputAsNew(m) ==
    \E n \in (Len(crm_contacts) + 1)..Len(result) :
        result[n].id = normalise_submission_data(form_submissions[m]).id

\* C7 (as claimed): every eligible submission is a new contact of the
\* output, for every contact list, the empty one included.
C7_EligibleIsAdded ==
    pc = "done" =>
        \A m \in 1..Len(form_submissions) : Eligible(m) => InOutputAsNew(m)

\* C7 (amended): every eligible submission is a new contact of the output
\* when the contact list is not empty; with no contacts the output is empty.
C7_EligibleIsAddedToContacts ==
    pc = "done" =>
        IF crm_contacts = << >>
        THEN result = << >>
        ELSE \A m \in 1..Len(form_submissions) : Eligible(m) => InOutputAsNew(m)

C7_Witness ==
    /\ pc = "done"
    /\ crm_contacts # << >>
    /\ \E m \in 1..Len(form_submissions) : Eligible(m) /\ InOutputAsNew(m)

\* C8: a submission with feedback and an empty submission_date, merged or
\* made into a new contact, leaves the current date as last_contact_date,
\* and the appended history entry starts with that date.
C8_EmptyDateIsToday ==
    (/\ last_merge.kind \in {"merge", "new"}
     /\ last_merge.submission.feedback # E
     /\ last_merge.submission.submission_date = E)
    => /\ last_merge.after.last_contact_date = Today
       /\ LET entries == Entries(last_merge.after.all_contact_text)
          IN  IsPrefix(Today, entries[Len(entries)])

\* Rules 1-3 do not answer: no field of the contact is missing that the
\* submission has.
NothingToFill(contact, sub) ==
    /\ ~(contact.phone = E /\ sub.phone # E)
    /\ ~(contact.first = E /\ sub.first # E)
    /\ ~(contact.last = E /\ sub.last # E)

\* C9 (as claimed): with feedback and a non-empty last_contact_date, the
\* check answers True when either date string is non-empty and unparsable,
\* also when the other one is empty.
C9_FailOpen ==
    (/\ pc = "checked"
     /\ unique_submissions[k].feedback # E
     /\ current_contact.last_contact_date # E
     /\ \/ Unparsable(unique_submissions[k].submission_date)
        \/ Unparsable(current_contact.last_contact_date))
    => contact_updated

\* C9 (amended): with feedback and both date strings non-empty, the check
\* answers True when either of them is unparsable.
C9_FailOpenBothPresent ==
    (/\ pc = "checked"
     /\ unique_submissions[k].feedback # E
     /\ current_contact.last_contact_date # E
     /\ unique_submissions[k].submission_date # E
     /\ \/ Unparsable(unique_submissions[k].submission_date)
        \/ Unparsable(current_contact.last_contact_date))
    => contact_updated

C9_Witness ==
    /\ pc = "checked"
    /\ unique_submissions[k].feedback # E
    /\ parse_date(unique_submissions[k].submission_date).ok
    /\ Unparsable(current_contact.last_contact_date)
    /\ NothingToFill(current_contact, unique_submissions[k])
    /\ contact_updated

\* The positions of a list whose composite key occurs at no earlier position
RECURSIVE FirstSeen(_, _)
FirstSeen(list, p) ==
    IF p > Len(list) THEN << >>
    ELSE (IF \A q \in 1..(p - 1) : sub_key(list[q]) # sub_key(list[p])
          THEN << list[p] >> ELSE << >>) \o FirstSeen(list, p + 1)

\* C10: the submissions folded over for a contact are the id matches
\* followed by the e-mail matches, each composite key once, at its first
\* position.
C10_NoDuplicateKey ==
    pc = "fold" =>
        LET contact == normalised_contacts[i]
            by_id == IF contact.id = E THEN << >>
                     ELSE SelectSeq(normalised_submissions,
                                    LAMBDA s : s.id = contact.id)
            by_email == IF contact.email = E THEN << >>
                        ELSE SelectSeq(normalised_submissions,
                                       LAMBDA s : lower(s.email) = lower(contact.email))
        IN  /\ \A p, q \in 1..Len(unique_submissions) :
                  sub_key(unique_submissions[p]) = sub_key(unique_submissions[q])
                      => p = q
            /\ unique_submissions = FirstSeen(by_id \o by_email, 1)

C10_Witness ==
    /\ pc = "fold"
    /\ Len(unique_submissions) = 1
    /\ \E p, q \in 1..Len(matching_submissions) :
          /\ p < q
          /\ matching_submissions[p] # matching_submissions[q]
    /\ \E p, q \in 1..Len(matching_submissions) :
          /\ p < q
          /\ matching_submissions[p] = matching_submissions[q]

=============================================================================
